---- MODULE Spec2Model ----
(***************************************************************************)
(* Todo list application: the /api/todos router over the Todo collection, *)
(* and the browser's TodoManager + TodoStorageManager of one signed-in    *)
(* user.  Strings are TLA+ strings; a todo text is a sequence of          *)
(* characters so that trimming is computed.                               *)
(***************************************************************************)
EXTENDS Integers, Sequences, FiniteSets, TLC

\* ------------------------------------------------------------------ bounds
MaxTodos == 2          \* todos ever created (server ids and local ids together)
MaxCalls == 2          \* calls started while others may still be waiting

\* --------------------------------------------------------- program constants
MountFetches == 2      \* fetchTodos() of each of the two effects that run on mount
MaxTextLen == 200      \* isLength({ max: 200 }) / maxlength: [200, ...]

Users == {"u1", "u2"}
Me == "u1"             \* the user whose token the browser holds

Priorities == {"high", "medium", "low"}

\* ------------------------------------------------------------------- ids
\* An ObjectId is written as the decimal string of its allocation number;
\* "0" is a well-formed ObjectId that is never allocated.  A local id
\* (Date.now().toString()) is "t" followed by its number.  Any other path
\* segment ("completed", "mark-all", "stats") is not an ObjectId.
Oid(n) == ToString(n)

LocalId(n) == "t" \o ToString(n)

ObjectIds == {Oid(n) : n \in 0..(MaxTodos + 1)}

IsObjectId(s) == s \in ObjectIds

\* --------------------------------------------------------------- documents
\* description and category "none" stand for an absent or null value; a due
\* date is written as <<day>> or <<day, minute of the day>>, <<>> is null
NoTodo == [id |-> "none", userId |-> "none", text |-> <<>>, completed |-> FALSE,
           priority |-> "none", createdAt |-> 0,
           dueDate |-> <<>>, description |-> "none", category |-> "none"]

Categories == {"work", "personal", "shopping", "health", "education", "other"}

DayMinutes == 1440

\* new Date(string).getTime(), in minutes
ParseDate(s) == s[1] * DayMinutes + (IF Len(s) >= 2 THEN s[2] ELSE 0)

\* Date.prototype.toISOString : always a calendar date with a time of day
ToISOString(ms) == <<ms \div DayMinutes, ms % DayMinutes>>

\* validator.isISO8601 over toString(value): null becomes '' and fails
IsISO8601(s) == Len(s) \in {1, 2}

\* String.prototype.trim over a sequence of characters
RECURSIVE TrimLeft(_)
TrimLeft(s) == IF s # <<>> /\ Head(s) = " " THEN TrimLeft(Tail(s)) ELSE s

RECURSIVE TrimRight(_)
TrimRight(s) == IF s # <<>> /\ s[Len(s)] = " " THEN TrimRight(SubSeq(s, 1, Len(s) - 1)) ELSE s

Trim(s) == TrimRight(TrimLeft(s))

\* A request body: `has` lists the keys present in the JSON object.
Body(has, text, priority, completed, userId) ==
  [has |-> has,
   text |-> IF "text" \in has THEN text ELSE <<>>,
   priority |-> IF "priority" \in has THEN priority ELSE "none",
   completed |-> IF "completed" \in has THEN completed ELSE FALSE,
   userId |-> IF "userId" \in has THEN userId ELSE "none",
   dueDate |-> <<>>, description |-> "none", category |-> "none"]

\* The body b with the keys of `has` among dueDate, description, category added
Detailed(b, has, dueDate, description, category) ==
  [b EXCEPT !.has = @ \cup has,
            !.dueDate = IF "dueDate" \in has THEN dueDate ELSE @,
            !.description = IF "description" \in has THEN description ELSE @,
            !.category = IF "category" \in has THEN category ELSE @]

EmptyBody == Body({}, <<>>, "none", FALSE, "none")

\* express-validator chains of POST / and PUT /:id
TextRequiredOk(b) == "text" \in b.has /\ b.text # <<>> /\ Len(b.text) <= MaxTextLen

TextOptionalOk(b) == "text" \in b.has => (b.text # <<>> /\ Len(b.text) <= MaxTextLen)

PriorityOptionalOk(b) == "priority" \in b.has => b.priority \in Priorities

\* body('dueDate').optional().isISO8601() : optional() skips only an absent key
DueDateOptionalOk(b) == "dueDate" \in b.has => IsISO8601(b.dueDate)

\* the Date cast of the dueDate path
CastDate(s) == IF s = <<>> THEN <<>> ELSE ToISOString(ParseDate(s))

\* Todo.find(query).sort({ createdAt: -1 }) : the documents of a set, newest first
RECURSIVE SortCreatedDesc(_)
SortCreatedDesc(S) ==
  IF S = {} THEN <<>>
  ELSE LET t == CHOOSE x \in S : \A y \in S : y.createdAt <= x.createdAt
       IN <<t>> \o SortCreatedDesc(S \ {t})

OwnedBy(d, u) == {t \in d : t.userId = u}

Range(s) == {s[i] : i \in 1..Len(s)}

IdsOf(S) == {t.id : t \in S}

NoStats == [total |-> 0, completed |-> 0, active |-> 0]

\* A response of the router; error is what the 'error' key of the JSON body
\* carries and stack what its 'stack' key carries
Response(status, todo, todos) ==
  [status |-> status, todo |-> todo, todos |-> todos, stats |-> NoStats,
   error |-> "none", stack |-> "none"]

\* The catch block of a route or of the auth middleware:
\* res.status(500).json({ success: false, message: '...', error: error.message })
ServerError == [Response(500, NoTodo, <<>>) EXCEPT !.error = "error.message"]

\* What a handler leaves behind: the collection, the allocation counter, the answer
Outcome(d, n, r) == [db |-> d, nextId |-> n, resp |-> r]

\* ------------------------------------------------------ ordering of tasks
\* UTF-16 code unit of the characters that occur in task texts
CharCode(c) ==
  CASE c = " " -> 32
    [] c = "A" -> 65
    [] c = "B" -> 66
    [] c = "a" -> 97
    [] c = "b" -> 98
    [] c = "d" -> 100
    [] OTHER -> 0

\* String.prototype.toLowerCase, per character
ToLowerCase(s) ==
  [i \in 1..Len(s) |-> CASE s[i] = "A" -> "a" [] s[i] = "B" -> "b" [] OTHER -> s[i]]

\* Comparison of two strings by code units: -1, 0 or 1
RECURSIVE CompareCodeUnits(_, _)
CompareCodeUnits(s, t) ==
  IF s = <<>> /\ t = <<>> THEN 0
  ELSE IF s = <<>> THEN -1
  ELSE IF t = <<>> THEN 1
  ELSE IF CharCode(Head(s)) < CharCode(Head(t)) THEN -1
  ELSE IF CharCode(Head(s)) > CharCode(Head(t)) THEN 1
  ELSE CompareCodeUnits(Tail(s), Tail(t))

Sign(x) == IF x < 0 THEN -1 ELSE IF x > 0 THEN 1 ELSE 0

\* const priorityOrder = { high: 3, medium: 2, low: 1 } ; 0 stands for undefined
priorityOrder(p) ==
  CASE p = "high" -> 3 [] p = "medium" -> 2 [] p = "low" -> 1 [] OTHER -> 0

\* (a, b) => priorityDiff !== 0 ? priorityDiff : new Date(b.createdAt) - new Date(a.createdAt)
\* A difference with undefined is NaN, which sort() takes as 0.
ComparePriority(a, b) ==
  IF priorityOrder(a.priority) = 0 \/ priorityOrder(b.priority) = 0 THEN 0
  ELSE IF priorityOrder(b.priority) # priorityOrder(a.priority)
         THEN Sign(priorityOrder(b.priority) - priorityOrder(a.priority))
  ELSE Sign(b.createdAt - a.createdAt)

\* Comparators that never answer 0: tasks that tie compare as greater
getSortFunctionNoTies(sortBy, a, b) ==
  LET diff ==
        CASE sortBy = "priority" -> ComparePriority(a, b)
          [] sortBy = "dueDate" ->
               IF a.dueDate = <<>> /\ b.dueDate = <<>> THEN 0
               ELSE IF a.dueDate = <<>> THEN 1
               ELSE IF b.dueDate = <<>> THEN -1
               ELSE Sign(ParseDate(a.dueDate) - ParseDate(b.dueDate))
          [] sortBy = "alphabetical" -> CompareCodeUnits(ToLowerCase(a.text), ToLowerCase(b.text))
          [] OTHER -> Sign(b.createdAt - a.createdAt)
  IN IF diff = 0 THEN 1 ELSE diff

\* TodoManager.getSortFunction(sortBy)(a, b), reduced to its sign
getSortFunction(sortBy, a, b) ==
  CASE sortBy = "priority" -> ComparePriority(a, b)
    [] sortBy = "dueDate" ->
         IF a.dueDate = <<>> /\ b.dueDate = <<>> THEN 0
         ELSE IF a.dueDate = <<>> THEN 1
         ELSE IF b.dueDate = <<>> THEN -1
         ELSE Sign(ParseDate(a.dueDate) - ParseDate(b.dueDate))
    [] sortBy = "alphabetical" -> CompareCodeUnits(ToLowerCase(a.text), ToLowerCase(b.text))
    [] OTHER -> Sign(b.createdAt - a.createdAt)

\* Array.prototype.sort is stable: t goes after every element that does not
\* compare greater than it
RECURSIVE InsertSorted(_, _, _)
InsertSorted(sorted, t, sortBy) ==
  IF sorted = <<>> THEN <<t>>
  ELSE IF getSortFunction(sortBy, Head(sorted), t) <= 0
         THEN <<Head(sorted)>> \o InsertSorted(Tail(sorted), t, sortBy)
  ELSE <<t>> \o sorted

\* list.sort(getSortFunction(sortBy)) over a copy of the list
RECURSIVE SortList(_, _)
SortList(list, sortBy) ==
  IF list = <<>> THEN <<>>
  ELSE InsertSorted(SortList(SubSeq(list, 1, Len(list) - 1), sortBy), list[Len(list)], sortBy)

\* Order of the store for a sort document: null sorts before every date,
\* strings compare by code units (no collation is configured)
\*   dueDate      : { dueDate: 1, createdAt: -1 }
\*   alphabetical : { text: 1 }
\*   otherwise    : { createdAt: -1 }  (a $meta textScore key that the store
\*                  accepts is the same for every document of a query
\*                  without $text)
StoreBefore(sortBy, a, b) ==
  CASE sortBy = "dueDate" ->
         IF a.dueDate = <<>> /\ b.dueDate = <<>> THEN a.createdAt > b.createdAt
         ELSE IF a.dueDate = <<>> THEN TRUE
         ELSE IF b.dueDate = <<>> THEN FALSE
         ELSE \/ ParseDate(a.dueDate) < ParseDate(b.dueDate)
              \/ (ParseDate(a.dueDate) = ParseDate(b.dueDate) /\ a.createdAt > b.createdAt)
    [] sortBy = "alphabetical" -> CompareCodeUnits(a.text, b.text) < 0
    [] OTHER -> a.createdAt > b.createdAt

\* Todo.find(query).sort(sort) : documents that tie come in the store's order
RECURSIVE FindSorted(_, _)
FindSorted(S, sortBy) ==
  IF S = {} THEN <<>>
  ELSE LET t == CHOOSE x \in S : \A y \in S : ~StoreBefore(sortBy, y, x)
       IN <<t>> \o FindSorted(S \ {t}, sortBy)

\* req.query of GET / : "none" is an absent parameter.  `meta` says what the
\* store does with the sort key { $meta: 'textScore' } of a query that has no
\* $text: it rejects the query or it accepts it.
Query(filter, sortBy, meta) == [filter |-> filter, sortBy |-> sortBy, meta |-> meta]

NoQuery == Query("none", "none", "accepted")

\* ------------------------------------------------------------ the router
\* router.get('/') with the completed condition inverted
GetTodosInverted(d, n, u, query) ==
  LET mine == OwnedBy(d, u)
      hit == IF query.filter = "active" THEN {t \in mine : t.completed}
             ELSE IF query.filter = "completed" THEN {t \in mine : ~t.completed}
             ELSE mine
      found == FindSorted(hit, query.sortBy)
  IN IF query.sortBy = "priority" /\ query.meta = "rejected"
       THEN Outcome(d, n, ServerError)
     ELSE Outcome(d, n, Response(200, NoTodo,
            IF query.sortBy = "priority" THEN SortList(found, "priority") ELSE found))

\* router.get('/') : query { userId, completed? }, sort document by sortBy,
\* then the in-memory priority sort
GetTodos(d, n, u, query) ==
  LET mine == OwnedBy(d, u)
      hit == IF query.filter = "active" THEN {t \in mine : ~t.completed}
             ELSE IF query.filter = "completed" THEN {t \in mine : t.completed}
             ELSE mine
      found == FindSorted(hit, query.sortBy)
  IN IF query.sortBy = "priority" /\ query.meta = "rejected"
       THEN Outcome(d, n, ServerError)
     ELSE Outcome(d, n, Response(200, NoTodo,
            IF query.sortBy = "priority" THEN SortList(found, "priority") ELSE found))

\* router.post('/') storing the text as submitted and defaulting the priority to 'low'
PostTodoRaw(d, n, u, b) ==
  IF ~(TextRequiredOk(b) /\ PriorityOptionalOk(b) /\ DueDateOptionalOk(b))
    THEN Outcome(d, n, Response(400, NoTodo, <<>>))
  ELSE IF Trim(b.text) = <<>>
    THEN Outcome(d, n, ServerError)
  ELSE LET todo == [id |-> Oid(n), userId |-> u, text |-> b.text, completed |-> FALSE,
                    priority |-> IF "priority" \in b.has THEN b.priority ELSE "low",
                    createdAt |-> n,
                    dueDate |-> CastDate(b.dueDate), description |-> "none", category |-> "none"]
       IN Outcome(d \cup {todo}, n + 1, Response(201, todo, <<>>))

\* router.post('/') : validators, then
\* new Todo({text.trim(), priority, dueDate || null, userId}).save() ; the
\* description and category of the body are not read, so the document keeps
\* the schema defaults.  save() runs the schema validators: text is required
\* after the trim setter.
PostTodo(d, n, u, b) ==
  IF ~(TextRequiredOk(b) /\ PriorityOptionalOk(b) /\ DueDateOptionalOk(b))
    THEN Outcome(d, n, Response(400, NoTodo, <<>>))
  ELSE IF Trim(b.text) = <<>>
    THEN Outcome(d, n, ServerError)
  ELSE LET todo == [id |-> Oid(n), userId |-> u, text |-> Trim(b.text), completed |-> FALSE,
                    priority |-> IF "priority" \in b.has THEN b.priority ELSE "medium",
                    createdAt |-> n,
                    dueDate |-> CastDate(b.dueDate), description |-> "none", category |-> "none"]
       IN Outcome(d \cup {todo}, n + 1, Response(201, todo, <<>>))

\* { $set: updates } with updates = req.body : every schema path present in
\* the body is written, userId included
ApplySet(t, b) ==
  [t EXCEPT !.text = IF "text" \in b.has THEN Trim(b.text) ELSE @,
            !.priority = IF "priority" \in b.has THEN b.priority ELSE @,
            !.completed = IF "completed" \in b.has THEN b.completed ELSE @,
            !.userId = IF "userId" \in b.has THEN b.userId ELSE @,
            !.dueDate = IF "dueDate" \in b.has THEN CastDate(b.dueDate) ELSE @,
            !.description = IF "description" \in b.has THEN b.description ELSE @,
            !.category = IF "category" \in b.has THEN b.category ELSE @]

\* router.put('/:id') : validators, findOneAndUpdate({_id, userId}, {$set}, {runValidators})
PutTodo(d, n, u, id, b) ==
  IF ~(TextOptionalOk(b) /\ PriorityOptionalOk(b) /\ DueDateOptionalOk(b))
    THEN Outcome(d, n, Response(400, NoTodo, <<>>))
  ELSE IF ~IsObjectId(id) \/ ("text" \in b.has /\ Trim(b.text) = <<>>)
            \/ ("category" \in b.has /\ b.category \notin Categories \cup {"none"})
    THEN Outcome(d, n, ServerError)
  ELSE LET hit == {t \in d : t.id = id /\ t.userId = u}
       IN IF hit = {} THEN Outcome(d, n, Response(404, NoTodo, <<>>))
          ELSE LET old == CHOOSE t \in hit : TRUE
                   new == ApplySet(old, b)
               IN Outcome((d \ {old}) \cup {new}, n, Response(200, new, <<>>))

\* router.delete('/:id') with the owner dropped from the query
DeleteTodoAnyOwner(d, n, u, id) ==
  IF ~IsObjectId(id) THEN Outcome(d, n, ServerError)
  ELSE LET hit == {t \in d : t.id = id}
       IN IF hit = {} THEN Outcome(d, n, Response(404, NoTodo, <<>>))
          ELSE LET old == CHOOSE t \in hit : TRUE
               IN Outcome(d \ {old}, n, Response(200, old, <<>>))

\* router.delete('/:id') : findOneAndDelete({_id, userId}); a malformed _id
\* fails the cast and lands in the catch block
DeleteTodo(d, n, u, id) ==
  IF ~IsObjectId(id) THEN Outcome(d, n, ServerError)
  ELSE LET hit == {t \in d : t.id = id /\ t.userId = u}
       IN IF hit = {} THEN Outcome(d, n, Response(404, NoTodo, <<>>))
          ELSE LET old == CHOOSE t \in hit : TRUE
               IN Outcome(d \ {old}, n, Response(200, old, <<>>))

\* router.patch('/:id/toggle') setting completed to true instead of flipping it
ToggleTodoSetsTrue(d, n, u, id) ==
  IF ~IsObjectId(id) THEN Outcome(d, n, ServerError)
  ELSE LET hit == {t \in d : t.id = id /\ t.userId = u}
       IN IF hit = {} THEN Outcome(d, n, Response(404, NoTodo, <<>>))
          ELSE LET old == CHOOSE t \in hit : TRUE
                   new == [old EXCEPT !.completed = TRUE]
               IN Outcome((d \ {old}) \cup {new}, n, Response(200, new, <<>>))

\* router.patch('/:id/toggle') : findOne, flip, save
ToggleTodo(d, n, u, id) ==
  IF ~IsObjectId(id) THEN Outcome(d, n, ServerError)
  ELSE LET hit == {t \in d : t.id = id /\ t.userId = u}
       IN IF hit = {} THEN Outcome(d, n, Response(404, NoTodo, <<>>))
          ELSE LET old == CHOOSE t \in hit : TRUE
                   new == [old EXCEPT !.completed = ~old.completed]
               IN Outcome((d \ {old}) \cup {new}, n, Response(200, new, <<>>))

\* router.patch('/mark-all') with updateMany over the whole collection
MarkAllEveryone(d, n, u, b) ==
  IF "completed" \notin b.has THEN Outcome(d, n, Response(400, NoTodo, <<>>))
  ELSE LET d2 == {[t EXCEPT !.completed = b.completed] : t \in d}
       IN Outcome(d2, n, Response(200, NoTodo, SortCreatedDesc(OwnedBy(d2, u))))

\* router.patch('/mark-all') : body('completed').isBoolean(), updateMany, find
MarkAll(d, n, u, b) ==
  IF "completed" \notin b.has THEN Outcome(d, n, Response(400, NoTodo, <<>>))
  ELSE LET d2 == {IF t.userId = u THEN [t EXCEPT !.completed = b.completed] ELSE t : t \in d}
       IN Outcome(d2, n, Response(200, NoTodo, SortCreatedDesc(OwnedBy(d2, u))))

\* router.delete('/completed') : deleteMany({userId, completed: true}), find
ClearCompleted(d, n, u) ==
  LET d2 == {t \in d : ~(t.userId = u /\ t.completed)}
  IN Outcome(d2, n, Response(200, NoTodo, SortCreatedDesc(OwnedBy(d2, u))))

\* router.get('/stats') : aggregate over { $match: { userId } }
GetStats(d, n, u) ==
  LET mine == OwnedBy(d, u)
  IN Outcome(d, n, [Response(200, NoTodo, <<>>) EXCEPT
       !.stats = [total |-> Cardinality(mine),
                  completed |-> Cardinality({t \in mine : t.completed}),
                  active |-> Cardinality({t \in mine : ~t.completed})]])

\* The routes in the order they are registered on the router
Routes == <<
  [method |-> "GET",    pattern |-> <<>>,                  handler |-> "list"],
  [method |-> "POST",   pattern |-> <<>>,                  handler |-> "create"],
  [method |-> "PUT",    pattern |-> <<":id">>,             handler |-> "update"],
  [method |-> "DELETE", pattern |-> <<":id">>,             handler |-> "delete"],
  [method |-> "PATCH",  pattern |-> <<":id", "toggle">>,   handler |-> "toggle"],
  [method |-> "PATCH",  pattern |-> <<"mark-all">>,        handler |-> "markAll"],
  [method |-> "DELETE", pattern |-> <<"completed">>,       handler |-> "clearCompleted"],
  [method |-> "GET",    pattern |-> <<"stats">>,           handler |-> "stats"] >>

\* Express path matching: same number of segments, a ':id' segment matches anything
Matches(pattern, path) ==
  /\ Len(pattern) = Len(path)
  /\ \A i \in 1..Len(path) : pattern[i] = ":id" \/ pattern[i] = path[i]

\* The first registered route that matches handles the request
Dispatch(method, path) ==
  LET hits == {i \in 1..Len(Routes) : Routes[i].method = method /\ Matches(Routes[i].pattern, path)}
  IN IF hits = {} THEN "none"
     ELSE Routes[CHOOSE i \in hits : \A j \in hits : i <= j].handler

\* One authenticated request to /api/todos as user u
Handle(d, n, u, method, path, query, b) ==
  LET h == Dispatch(method, path)
  IN CASE h = "list" -> GetTodos(d, n, u, query)
       [] h = "create" -> PostTodo(d, n, u, b)
       [] h = "update" -> PutTodo(d, n, u, path[1], b)
       [] h = "delete" -> DeleteTodo(d, n, u, path[1])
       [] h = "toggle" -> ToggleTodo(d, n, u, path[1])
       [] h = "markAll" -> MarkAll(d, n, u, b)
       [] h = "clearCompleted" -> ClearCompleted(d, n, u)
       [] h = "stats" -> GetStats(d, n, u)
       [] OTHER -> Outcome(d, n, Response(404, NoTodo, <<>>))

\* ------------------------------------------------- the auth middleware
\* The Authorization header of a request: its scheme ("none" when the header
\* is absent), what jwt.verify makes of the token, and the userId it encodes
Credential(scheme, token, userId) == [scheme |-> scheme, token |-> token, userId |-> userId]

NoCredential == Credential("none", "none", "none")

\* process.env of the server: NODE_ENV and SKIP_AUTH === 'true'
Env(nodeEnv, skipAuth) == [NODE_ENV |-> nodeEnv, SKIP_AUTH |-> skipAuth]

Production == Env("production", FALSE)

\* new mongoose.Types.ObjectId() of the test bypass: an id no document carries
NewObjectId(n) == "x" \o ToString(n)

\* What the middleware decides: next() with req.user, or a response
Passed(user) == [next |-> TRUE, user |-> user, resp |-> Response(0, NoTodo, <<>>)]

Denied(resp) == [next |-> FALSE, user |-> "none", resp |-> resp]

\* auth with the lookup of the user left out: any verified token passes
authNoUserLookup(cred, env, fault, n) ==
  IF env.NODE_ENV = "test" \/ env.SKIP_AUTH THEN Passed(NewObjectId(n))
  ELSE IF cred.scheme # "Bearer" THEN Denied(Response(401, NoTodo, <<>>))
  ELSE IF cred.token \in {"malformed", "expired"} THEN Denied(Response(401, NoTodo, <<>>))
  ELSE Passed(cred.userId)

\* auth : the test bypass, the header check, jwt.verify, User.findById;
\* fault = the store throws when it is asked
auth(cred, env, fault, n) ==
  IF env.NODE_ENV = "test" \/ env.SKIP_AUTH THEN Passed(NewObjectId(n))
  ELSE IF cred.scheme # "Bearer" THEN Denied(Response(401, NoTodo, <<>>))
  ELSE IF cred.token = "malformed" THEN Denied(Response(401, NoTodo, <<>>))
  ELSE IF cred.token = "expired" THEN Denied(Response(401, NoTodo, <<>>))
  ELSE IF fault THEN Denied(ServerError)
  ELSE IF cred.userId \notin Users THEN Denied(Response(401, NoTodo, <<>>))
  ELSE Passed(cred.userId)

\* A route whose validators pass asks the store; when the store throws, the
\* route's catch block answers
HandleFaulty(d, n, u, method, path, query, b) ==
  LET o == Handle(d, n, u, method, path, query, b)
  IN IF Dispatch(method, path) = "none" \/ o.resp.status = 400 THEN o
     ELSE Outcome(d, n, ServerError)

\* router.use(auth), then the routes
Router(d, n, cred, env, fault, method, path, query, b) ==
  LET a == auth(cred, env, fault, n)
  IN IF ~a.next THEN Outcome(d, n, a.resp)
     ELSE IF fault THEN HandleFaulty(d, n, a.user, method, path, query, b)
     ELSE Handle(d, n, a.user, method, path, query, b)

\* The error handler of the app for an error passed to next(): its status or
\* 500, its message, and its stack in development
ErrorHandler(env, errStatus) ==
  [Response(IF errStatus # 0 THEN errStatus ELSE 500, NoTodo, <<>>) EXCEPT
     !.error = "error.message",
     !.stack = IF env.NODE_ENV = "development" THEN "error.stack" ELSE "none"]

\* ------------------------------------------------- TodoStorageManager (browser)
\* The storage layer sees the collection through fetch and keeps localStorage
\* 'todos' (cache).  A fetch either reaches the server (net = TRUE) or throws.
Store(d, n, c, ret) == [db |-> d, nextId |-> n, cache |-> c, ret |-> ret]

Ok(status) == status >= 200 /\ status <= 299

\* storage.getTodos : GET /todos, or the cache when the request fails
StGetTodos(d, n, c, net) ==
  IF net THEN Handle(d, n, Me, "GET", <<>>, NoQuery, EmptyBody).resp.todos ELSE c

\* storage.addTodo : POST /todos; on any failure a local todo is appended to
\* whatever getTodos returns and written to the cache
StAddTodo(d, n, c, b, net1, net2) ==
  LET o == Handle(d, n, Me, "POST", <<>>, NoQuery, b)
  IN IF net1 /\ Ok(o.resp.status) THEN Store(o.db, o.nextId, c, o.resp.todo)
     ELSE LET newTodo == [id |-> LocalId(n), userId |-> "none", text |-> b.text,
                          completed |-> FALSE, priority |-> b.priority, createdAt |-> n,
                          dueDate |-> b.dueDate, description |-> b.description,
                          category |-> b.category]
          IN Store(d, n + 1, Append(StGetTodos(d, n, c, net2), newTodo), newTodo)

\* findIndex(t => t.id === id || t._id === id)
FindIndex(todos, id) ==
  LET hits == {i \in 1..Len(todos) : todos[i].id = id}
  IN IF hits = {} THEN 0 ELSE CHOOSE i \in hits : \A j \in hits : i <= j

\* { ...todos[todoIndex], ...updates } of the fallback
Merge(t, b) ==
  [t EXCEPT !.text = IF "text" \in b.has THEN b.text ELSE @,
            !.priority = IF "priority" \in b.has THEN b.priority ELSE @,
            !.completed = IF "completed" \in b.has THEN b.completed ELSE @,
            !.dueDate = IF "dueDate" \in b.has THEN b.dueDate ELSE @]

\* storage.updateTodo : PUT /todos/:id, else patch the list getTodos returns
StUpdateTodo(d, n, c, id, b, net1, net2) ==
  LET o == Handle(d, n, Me, "PUT", <<id>>, NoQuery, b)
  IN IF net1 /\ Ok(o.resp.status) THEN Store(o.db, n, c, o.resp.todo)
     ELSE LET todos == StGetTodos(d, n, c, net2)
              i == FindIndex(todos, id)
          IN IF i # 0
               THEN LET todos2 == [todos EXCEPT ![i] = Merge(todos[i], b)]
                    IN Store(d, n, todos2, todos2[i])
               ELSE Store(d, n, c, NoTodo)

\* storage.deleteTodo : DELETE /todos/:id, else filter the list getTodos returns
StDeleteTodo(d, n, c, id, net1, net2) ==
  LET o == Handle(d, n, Me, "DELETE", <<id>>, NoQuery, EmptyBody)
  IN IF net1 /\ Ok(o.resp.status) THEN Store(o.db, n, c, TRUE)
     ELSE LET todos == StGetTodos(d, n, c, net2)
              filtered == SelectSeq(todos, LAMBDA t : t.id # id)
          IN IF Len(filtered) # Len(todos) THEN Store(d, n, filtered, TRUE)
             ELSE Store(d, n, c, FALSE)

\* storage.toggleTodo : PATCH /todos/:id/toggle, else flip in the list getTodos returns
StToggleTodo(d, n, c, id, net1, net2) ==
  LET o == Handle(d, n, Me, "PATCH", <<id, "toggle">>, NoQuery, EmptyBody)
  IN IF net1 /\ Ok(o.resp.status) THEN Store(o.db, n, c, o.resp.todo)
     ELSE LET todos == StGetTodos(d, n, c, net2)
              i == FindIndex(todos, id)
          IN IF i # 0
               THEN LET todos2 == [todos EXCEPT ![i].completed = ~todos[i].completed]
                    IN Store(d, n, todos2, todos2[i])
               ELSE Store(d, n, c, NoTodo)

\* storage.markAllTodos : PATCH /todos/mark-all, else map over getTodos
StMarkAllTodos(d, n, c, completed, net1, net2) ==
  LET o == Handle(d, n, Me, "PATCH", <<"mark-all">>, NoQuery, Body({"completed"}, <<>>, "none", completed, "none"))
  IN IF net1 /\ Ok(o.resp.status) THEN Store(o.db, n, c, o.resp.todos)
     ELSE LET todos == StGetTodos(d, n, c, net2)
              updated == [i \in 1..Len(todos) |-> [todos[i] EXCEPT !.completed = completed]]
          IN Store(d, n, updated, updated)

\* storage.clearCompleted : DELETE /todos/completed, else filter getTodos
StClearCompleted(d, n, c, net1, net2) ==
  LET o == Handle(d, n, Me, "DELETE", <<"completed">>, NoQuery, EmptyBody)
  IN IF net1 /\ Ok(o.resp.status) THEN Store(o.db, n, c, o.resp.todos)
     ELSE LET remaining == SelectSeq(StGetTodos(d, n, c, net2), LAMBDA t : ~t.completed)
          IN Store(d, n, remaining, remaining)

\* ------------------------------------------------------------- TodoManager
\* validatePriority: anything outside the enum becomes 'medium'
validatePriority(b) ==
  IF "priority" \notin b.has \/ b.priority \notin Priorities THEN "medium" ELSE b.priority

\* validateDate: only a calendar date 'YYYY-MM-DD' is kept, anything else is null
validateDate(b) ==
  IF "dueDate" \in b.has /\ Len(b.dueDate) = 1 THEN b.dueDate ELSE <<>>

\* cleanTodoData of addTodo: text, priority and dueDate, each key always present
cleanTodoData(b) ==
  Detailed(Body({"text", "priority"}, Trim(b.text), validatePriority(b), FALSE, "none"),
           {"dueDate"}, validateDate(b), "none", "none")

\* getFilteredTodos over this.todos with the sort applied to this.todos
\* itself instead of a copy
getFilteredTodosInPlace(todos, filter, sortBy) ==
  LET filteredTodos ==
        CASE filter = "active" -> SelectSeq(todos, LAMBDA t : ~t.completed)
          [] filter = "completed" -> SelectSeq(todos, LAMBDA t : t.completed)
          [] OTHER -> todos
  IN [todos |-> SortList(todos, sortBy), ret |-> SortList(filteredTodos, sortBy)]

\* getFilteredTodos: [...this.todos], filter by this.currentFilter, sort by
\* this.currentSort; the answer and what this.todos holds afterwards
getFilteredTodos(todos, filter, sortBy) ==
  LET filteredTodos ==
        CASE filter = "active" -> SelectSeq(todos, LAMBDA t : ~t.completed)
          [] filter = "completed" -> SelectSeq(todos, LAMBDA t : t.completed)
          [] OTHER -> todos
  IN [todos |-> todos, ret |-> SortList(filteredTodos, sortBy)]

\* getAllTodos: [...this.todos]
getAllTodos(todos) == [todos |-> todos, ret |-> todos]

\* TodosPage filteredTodos: todos.filter(...) by the selected filter
filteredTodos(todos, filter) ==
  SelectSeq(todos, LAMBDA t : IF filter = "active" THEN ~t.completed
                              ELSE IF filter = "completed" THEN t.completed
                              ELSE TRUE)

\* TodosPage counts: all, completed and active over the todos state
counts(todos) ==
  [total |-> Len(todos),
   completed |-> Len(SelectSeq(todos, LAMBDA t : t.completed)),
   active |-> Len(SelectSeq(todos, LAMBDA t : ~t.completed))]

\* this.todos is either an array or, after a call that forgot to await, a Promise
ListMirror(todos) == [kind |-> "list", todos |-> todos]

\* The settled value of the promise is never read by the manager
PromiseMirror == [kind |-> "promise", todos |-> <<>>]

\* todosChanged listeners registered with addEventListener
Listeners == {"ui", "aux"}

\* emit(event, data): every registered callback is called once
Emit(ev, action) == [l \in Listeners |-> Append(ev[l], action)]

NoEvents == [l \in Listeners |-> <<>>]

\* ------------------------------------------------------------------ inputs
TextInputs == {<<>>, <<" ">>, <<"a">>, <<" ", "a">>}

PriorityInputs == {"high", "urgent"}

\* ids a caller may name: every ObjectId that can be allocated, and one local id
IdArgs == {Oid(k) : k \in 1..MaxTodos} \cup {LocalId(1)}

\* a task with a priority, a description and a category
DetailedBody ==
  Detailed(Body({"text", "priority"}, <<"a">>, "high", FALSE, "none"),
           {"description", "category"}, <<>>, "d", "work")

\* bodies of POST /api/todos
PostBodies ==
  {EmptyBody, DetailedBody}
  \cup {Body({"text"}, t, "none", FALSE, "none") : t \in TextInputs}
  \cup {Body({"text", "priority"}, <<"a">>, "urgent", FALSE, "none")}

\* the task-creation form filled in completely, with a calendar date
FullTodoData ==
  Detailed(Body({"text", "priority"}, <<"a">>, "high", FALSE, "none"),
           {"dueDate", "description", "category"}, <<1>>, "d", "work")

\* the form with date and time filled in: dueDate = `${dueDate}T${dueTime}`
TimedTodoData ==
  Detailed(Body({"text", "priority"}, <<"a">>, "high", FALSE, "none"),
           {"dueDate"}, <<1, 570>>, "none", "none")

\* todoData handed to TodoManager.addTodo
TodoDataInputs ==
  {EmptyBody, FullTodoData, TimedTodoData}
  \cup {Body({"text"}, t, "none", FALSE, "none") : t \in TextInputs}
  \cup {Body({"text", "priority"}, <<"a">>, "urgent", FALSE, "none")}

PutBodies ==
  {Body({"text"}, <<" ">>, "none", FALSE, "none")}
  \cup {Body({"priority"}, <<>>, p, FALSE, "none") : p \in PriorityInputs}
  \cup {Body({"completed"}, <<>>, "none", TRUE, "none")}
  \cup {Body({"userId"}, <<>>, "none", FALSE, "u2")}

\* values of filter and sortBy: the ones the interfaces offer, and one that
\* none of them knows (preferences are read from localStorage unchecked)
ViewFilters == {"all", "active", "completed", "bogus"}

ViewSorts == {"created", "priority", "dueDate", "alphabetical", "bogus"}

\* query strings of GET /api/todos: every filter, every sortBy, and both
\* answers of the store to the priority sort document
ListQueries ==
  {Query(f, "none", "accepted") : f \in ViewFilters}
  \cup {Query("none", s, "accepted") : s \in ViewSorts}
  \cup {Query("none", "priority", "rejected")}

\* A stored task of user Me, before it is given an id
Task(text, priority, dueDate, createdAt, completed) ==
  [NoTodo EXCEPT !.userId = Me, !.text = text, !.priority = priority,
                 !.dueDate = dueDate, !.createdAt = createdAt, !.completed = completed]

\* The tasks a list is drawn from: every priority, equal and different
\* creation times, due dates present and missing, texts that differ in case
\* only or in their first letter, active and completed
Tasks ==
  {Task(<<"a">>, p, <<>>, 1, FALSE) : p \in {"high", "medium", "low"}}
  \cup {Task(<<"a">>, "high", <<>>, 2, FALSE)}
  \cup {Task(<<"A">>, "high", <<1, 0>>, 1, FALSE), Task(<<"B">>, "high", <<2, 0>>, 1, FALSE)}
  \cup {Task(<<"a">>, "high", <<>>, 1, TRUE)}

\* Authorization headers: none, another scheme, a token jwt.verify rejects, an
\* expired token, a token of a user that is gone, the token of user Me
Credentials ==
  {NoCredential, Credential("Basic", "valid", Me), Credential("Bearer", "malformed", "none"),
   Credential("Bearer", "expired", Me), Credential("Bearer", "valid", "u0"),
   Credential("Bearer", "valid", Me)}

\* Environments of the server process; the routes read none of it, the
\* middleware reads the bypass, the error handler reads 'development'
Envs == {Production, Env("test", FALSE), Env("production", TRUE)}

HandlerEnvs == {Production, Env("development", FALSE)}

\* One request per route of the router
Request(method, path, b) == [method |-> method, path |-> path, b |-> b]

Requests ==
  {Request("GET", <<>>, EmptyBody),
   Request("POST", <<>>, Body({"text"}, <<"a">>, "none", FALSE, "none")),
   Request("PUT", <<Oid(1)>>, Body({"completed"}, <<>>, "none", TRUE, "none")),
   Request("DELETE", <<Oid(1)>>, EmptyBody),
   Request("PATCH", <<Oid(1), "toggle">>, EmptyBody),
   Request("PATCH", <<"mark-all">>, Body({"completed"}, <<>>, "none", TRUE, "none")),
   Request("DELETE", <<"completed">>, EmptyBody),
   Request("GET", <<"stats">>, EmptyBody)}

\* The text of a file handed to importTodos: a serialized export (its tasks)
\* or something that is not one
ImportData(wellFormed, todos) == [wellFormed |-> wellFormed, todos |-> todos]

NoData == ImportData(FALSE, <<>>)

ImportInputs ==
  {NoData, ImportData(TRUE, <<>>),
   ImportData(TRUE, <<[NoTodo EXCEPT !.id = LocalId(0), !.text = <<"b">>, !.priority = "low"]>>)}

MarkAllBodies == {EmptyBody} \cup {Body({"completed"}, <<>>, "none", c, "none") : c \in BOOLEAN}

\* ------------------------------------------------------------------- state
VARIABLES
  db,        \* the Todo collection: a set of documents
  nextId,    \* number of the next id to be allocated
  cache,     \* localStorage 'todos' of the browser: a list of todos
  mirror,    \* TodoManager.todos
  events,    \* per listener, the todosChanged actions delivered by the last manager call
  last,      \* the last request or manager call and its result
  currentFilter,   \* TodoManager.currentFilter
  currentSort,     \* TodoManager.currentSort
  pending,   \* calls that are waiting at an await: requests sent, answers on their way
  log,       \* the events the manager has delivered to its listeners, in order
  clock,     \* calls started so far, mutations applied so far, saves made per task
  prefs,     \* User.preferences of user Me in the users collection
  settings,  \* preferences of localStorage 'user'
  page       \* TodosPage: its todos, filter and sortBy state

\* What a call that runs to its end without waiting leaves alone
asyncVars == <<pending, log, clock, prefs, settings, page>>

vars == <<db, nextId, cache, mirror, events, last, currentFilter, currentSort, asyncVars>>

\* preferences: { sortBy, filter } (the theme plays no part)
Preferences(filter, sortBy) == [filter |-> filter, sortBy |-> sortBy]

\* the schema defaults of User.preferences, which getSettings also falls back to
DefaultPreferences == Preferences("all", "created")

\* useState([]), useState('all'), useState('dueDate')
PageState(todos, filter, sortBy) == [todos |-> todos, filter |-> filter, sortBy |-> sortBy]

\* The counters after so many calls and mutations, before any save of a toggle
Clock(calls, applied) == [calls |-> calls, applied |-> applied, saves |-> [id \in ObjectIds |-> 0]]

\* Nothing is in flight, no event was delivered, preferences are the defaults
Quiet ==
  /\ pending = {}
  /\ log = <<>>
  /\ clock = Clock(0, 0)
  /\ prefs = DefaultPreferences
  /\ settings = DefaultPreferences
  /\ page = PageState(<<>>, "all", "dueDate")

\* layer "api": a request (op the route asked for, handler the route that ran,
\* outcome the filter parameter, query the whole query string); layer "mgr":
\* (origin and run keep the history of a task that was added and then only
\* toggled: the task as addTodo returned it, and the toggles made since) a manager call (net its
\* connectivity, todo what the storage layer handed back, outcome how it ended)
Call(layer, op, handler, user, id, body, status, todo, todos, stats, outcome, net) ==
  [layer |-> layer, op |-> op, handler |-> handler, user |-> user, id |-> id, body |-> body,
   status |-> status, todo |-> todo, todos |-> todos, stats |-> stats, outcome |-> outcome,
   net |-> net, query |-> NoQuery, origin |-> NoTodo, run |-> 0,
   error |-> "none", stack |-> "none", cred |-> NoCredential, env |-> Production, fault |-> FALSE,
   data |-> NoData]

Init ==
  /\ db = {}
  /\ nextId = 1
  /\ cache = <<>>
  /\ mirror = ListMirror(<<>>)
  /\ events = NoEvents
  /\ last = Call("none", "none", "none", "none", "none", EmptyBody, 0, NoTodo, <<>>, NoStats, "none", TRUE)
  /\ currentFilter = "all"
  /\ currentSort = "created"
  /\ Quiet

\* ------------------------------------------------- requests made directly
\* What the router does with one authenticated request of user u, and the
\* record of the request and its answer
Served(op, u, method, path, query, b) ==
  LET o == Handle(db, nextId, u, method, path, query, b)
  IN [db |-> o.db, nextId |-> o.nextId,
      last |-> [Call("api", op, Dispatch(method, path), u, IF path = <<>> THEN "none" ELSE path[1],
                     b, o.resp.status, o.resp.todo, o.resp.todos, o.resp.stats, query.filter, TRUE)
                  EXCEPT !.query = query, !.error = o.resp.error, !.stack = o.resp.stack]]

\* GET /api/todos?filter=
ReqGetTodos == \E u \in Users, f \in {"all", "active", "completed"} :
  \E r \in {Served("list", u, "GET", <<>>, Query(f, "none", "accepted"), EmptyBody)} :
    /\ r.nextId <= MaxTodos + 1
    /\ db' = r.db
    /\ nextId' = r.nextId
    /\ last' = r.last
    /\ UNCHANGED <<cache, mirror, events, currentFilter, currentSort, asyncVars>>

\* POST /api/todos
ReqPostTodo == \E u \in Users, b \in PostBodies :
  \E r \in {Served("create", u, "POST", <<>>, NoQuery, b)} :
    /\ r.nextId <= MaxTodos + 1
    /\ db' = r.db
    /\ nextId' = r.nextId
    /\ last' = r.last
    /\ UNCHANGED <<cache, mirror, events, currentFilter, currentSort, asyncVars>>

\* PUT /api/todos/:id
ReqPutTodo == \E u \in Users, id \in IdArgs, b \in PutBodies :
  \E r \in {Served("update", u, "PUT", <<id>>, NoQuery, b)} :
    /\ r.nextId <= MaxTodos + 1
    /\ db' = r.db
    /\ nextId' = r.nextId
    /\ last' = r.last
    /\ UNCHANGED <<cache, mirror, events, currentFilter, currentSort, asyncVars>>

\* DELETE /api/todos/:id
ReqDeleteTodo == \E u \in Users, id \in IdArgs :
  \E r \in {Served("delete", u, "DELETE", <<id>>, NoQuery, EmptyBody)} :
    /\ r.nextId <= MaxTodos + 1
    /\ db' = r.db
    /\ nextId' = r.nextId
    /\ last' = r.last
    /\ UNCHANGED <<cache, mirror, events, currentFilter, currentSort, asyncVars>>

\* PATCH /api/todos/:id/toggle
ReqToggleTodo == \E u \in Users, id \in IdArgs :
  \E r \in {Served("toggle", u, "PATCH", <<id, "toggle">>, NoQuery, EmptyBody)} :
    /\ r.nextId <= MaxTodos + 1
    /\ db' = r.db
    /\ nextId' = r.nextId
    /\ last' = r.last
    /\ UNCHANGED <<cache, mirror, events, currentFilter, currentSort, asyncVars>>

\* PATCH /api/todos/mark-all
ReqMarkAll == \E u \in Users, b \in MarkAllBodies :
  \E r \in {Served("markAll", u, "PATCH", <<"mark-all">>, NoQuery, b)} :
    /\ r.nextId <= MaxTodos + 1
    /\ db' = r.db
    /\ nextId' = r.nextId
    /\ last' = r.last
    /\ UNCHANGED <<cache, mirror, events, currentFilter, currentSort, asyncVars>>

\* DELETE /api/todos/completed
ReqClearCompleted == \E u \in Users :
  \E r \in {Served("clearCompleted", u, "DELETE", <<"completed">>, NoQuery, EmptyBody)} :
    /\ r.nextId <= MaxTodos + 1
    /\ db' = r.db
    /\ nextId' = r.nextId
    /\ last' = r.last
    /\ UNCHANGED <<cache, mirror, events, currentFilter, currentSort, asyncVars>>

\* GET /api/todos/stats
ReqStats == \E u \in Users :
  \E r \in {Served("stats", u, "GET", <<"stats">>, NoQuery, EmptyBody)} :
    /\ r.nextId <= MaxTodos + 1
    /\ db' = r.db
    /\ nextId' = r.nextId
    /\ last' = r.last
    /\ UNCHANGED <<cache, mirror, events, currentFilter, currentSort, asyncVars>>

\* ----------------------------------------------------- TodoManager calls
\* Connectivity is drawn once per manager call: every fetch of the call
\* either reaches the server (net) or throws.
MgrCall(op, id, b, outcome, net) ==
  Call("mgr", op, "none", Me, id, b, 0, NoTodo, <<>>, NoStats, outcome, net)

\* TodoManager.addTodo
MgrAddTodo == \E b \in TodoDataInputs, net \in BOOLEAN :
  IF "text" \notin b.has \/ Trim(b.text) = <<>>
    THEN /\ last' = MgrCall("add", "none", b, "Error", net)
         /\ events' = NoEvents
         /\ UNCHANGED <<db, nextId, cache, mirror, currentFilter, currentSort, asyncVars>>
    ELSE \E s \in {StAddTodo(db, nextId, cache, cleanTodoData(b), net, net)} :
            /\ s.nextId <= MaxTodos + 1
            /\ UNCHANGED <<currentFilter, currentSort, asyncVars>>
            /\ db' = s.db
            /\ nextId' = s.nextId
            /\ cache' = s.cache
            /\ mirror' = ListMirror(StGetTodos(s.db, s.nextId, s.cache, net))
            /\ events' = Emit(NoEvents, "add")
            /\ last' = [MgrCall("add", s.ret.id, b, "ok", net) EXCEPT !.todo = s.ret, !.origin = s.ret]

\* TodoManager.updateTodo : not async, so storage.updateTodo and
\* storage.getTodos hand back promises; getFilteredTodos then spreads a promise
MgrUpdateTodo == \E id \in IdArgs, b \in PutBodies, net \in BOOLEAN :
  IF "text" \in b.has /\ Trim(b.text) = <<>>
    THEN /\ last' = MgrCall("update", id, b, "Error", net)
         /\ events' = NoEvents
         /\ UNCHANGED <<db, nextId, cache, mirror, currentFilter, currentSort, asyncVars>>
    ELSE \E s \in {StUpdateTodo(db, nextId, cache, id,
                        Body(b.has \ {"userId"}, Trim(b.text), validatePriority(b), b.completed, "none"),
                        net, net)} :
            /\ db' = s.db
            /\ cache' = s.cache
            /\ mirror' = PromiseMirror
            /\ events' = NoEvents
            /\ last' = [MgrCall("update", id, b, "TypeError", net) EXCEPT !.todo = s.ret]
            /\ UNCHANGED <<nextId, currentFilter, currentSort, asyncVars>>

\* TodoManager.deleteTodo
MgrDeleteTodo == \E id \in IdArgs, net \in BOOLEAN :
  IF mirror.kind # "list"
    THEN /\ last' = MgrCall("delete", id, EmptyBody, "TypeError", net)
         /\ events' = NoEvents
         /\ UNCHANGED <<db, nextId, cache, mirror, currentFilter, currentSort, asyncVars>>
    ELSE \E s \in {StDeleteTodo(db, nextId, cache, id, net, net)} :
            /\ db' = s.db
            /\ cache' = s.cache
            /\ mirror' = IF s.ret THEN ListMirror(StGetTodos(s.db, nextId, s.cache, net)) ELSE mirror
            /\ events' = IF s.ret THEN Emit(NoEvents, "delete") ELSE NoEvents
            /\ last' = MgrCall("delete", id, EmptyBody, IF s.ret THEN "true" ELSE "false", net)
            /\ UNCHANGED <<nextId, currentFilter, currentSort, asyncVars>>

\* TodoManager.toggleTodo
MgrToggleTodo == \E id \in IdArgs, net \in BOOLEAN :
  \E s \in {StToggleTodo(db, nextId, cache, id, net, net)} :
   LET found == s.ret # NoTodo
       chained == /\ found
                  /\ last.layer = "mgr" /\ last.id = id /\ last.outcome = "ok"
                  /\ last.origin # NoTodo /\ last.run < 2
   IN
     /\ db' = s.db
     /\ cache' = s.cache
     /\ mirror' = IF found THEN ListMirror(StGetTodos(s.db, nextId, s.cache, net)) ELSE mirror
     /\ events' = IF found THEN Emit(NoEvents, "toggle") ELSE NoEvents
     /\ last' = [MgrCall("toggle", id, EmptyBody, IF found THEN "ok" ELSE "null", net) EXCEPT
                   !.todo = s.ret,
                   !.origin = IF chained THEN last.origin ELSE NoTodo,
                   !.run = IF chained THEN last.run + 1 ELSE 0]
     /\ UNCHANGED <<nextId, currentFilter, currentSort, asyncVars>>

\* TodoManager.markAllTodos : this.todos = <promise>, then getFilteredTodos throws
MgrMarkAllTodos == \E completed \in BOOLEAN, net \in BOOLEAN :
  \E s \in {StMarkAllTodos(db, nextId, cache, completed, net, net)} :
     /\ db' = s.db
     /\ cache' = s.cache
     /\ mirror' = PromiseMirror
     /\ events' = NoEvents
     /\ last' = MgrCall("markAll", "none", Body({"completed"}, <<>>, "none", completed, "none"), "TypeError", net)
     /\ UNCHANGED <<nextId, currentFilter, currentSort, asyncVars>>

\* TodoManager.clearCompleted : this.todos = <promise>, then getFilteredTodos throws
MgrClearCompleted == \E net \in BOOLEAN :
  \E s \in {StClearCompleted(db, nextId, cache, net, net)} :
     /\ db' = s.db
     /\ cache' = s.cache
     /\ mirror' = PromiseMirror
     /\ events' = NoEvents
     /\ last' = MgrCall("clearCompleted", "none", EmptyBody, "TypeError", net)
     /\ UNCHANGED <<nextId, currentFilter, currentSort, asyncVars>>

\* TodoManager.importTodos : this.storage.importTodos is not a method of
\* TodoStorageManager, so the call throws before anything is read or written
MgrImportTodos == \E data \in ImportInputs :
  /\ last' = [MgrCall("import", "none", EmptyBody, "TypeError", TRUE) EXCEPT !.data = data]
  /\ events' = NoEvents
  /\ UNCHANGED <<db, nextId, cache, mirror, currentFilter, currentSort, asyncVars>>

\* Another signed-in user creates a task of their own while the browser runs
PeerPostTodo == \E r \in {Served("create", "u2", "POST", <<>>, NoQuery, Body({"text"}, <<"a">>, "none", FALSE, "none"))} :
    /\ r.nextId <= MaxTodos + 1
    /\ db' = r.db
    /\ nextId' = r.nextId
    /\ last' = r.last
    /\ UNCHANGED <<cache, mirror, events, currentFilter, currentSort, asyncVars>>

\* ------------------------------------------------------ views of the tasks
\* TodoManager.getFilteredTodos()
MgrGetFilteredTodos ==
  IF mirror.kind # "list"
    THEN /\ last' = MgrCall("view", "none", EmptyBody, "TypeError", TRUE)
         /\ UNCHANGED <<db, nextId, cache, mirror, events, currentFilter, currentSort, asyncVars>>
    ELSE \E v \in {getFilteredTodos(mirror.todos, currentFilter, currentSort)} :
           /\ mirror' = ListMirror(v.todos)
           /\ last' = [MgrCall("view", "none", EmptyBody, "ok", TRUE) EXCEPT
                         !.todos = v.ret, !.query = Query(currentFilter, currentSort, "accepted")]
           /\ UNCHANGED <<db, nextId, cache, events, currentFilter, currentSort, asyncVars>>

\* TodoManager.getAllTodos()
MgrGetAllTodos ==
  IF mirror.kind # "list"
    THEN /\ last' = MgrCall("getAll", "none", EmptyBody, "TypeError", TRUE)
         /\ UNCHANGED <<db, nextId, cache, mirror, events, currentFilter, currentSort, asyncVars>>
    ELSE \E v \in {getAllTodos(mirror.todos)} :
           /\ mirror' = ListMirror(v.todos)
           /\ last' = [MgrCall("getAll", "none", EmptyBody, "ok", TRUE) EXCEPT !.todos = v.ret]
           /\ UNCHANGED <<db, nextId, cache, events, currentFilter, currentSort, asyncVars>>

\* GET /api/todos?filter=&sortBy= as user Me
ReqGetTodosQuery == \E q \in ListQueries :
  \E r \in {Served("list", Me, "GET", <<>>, q, EmptyBody)} :
    /\ db' = r.db
    /\ nextId' = r.nextId
    /\ last' = r.last
    /\ UNCHANGED <<cache, mirror, events, currentFilter, currentSort, asyncVars>>

\* TodosPage: fetchTodos() with the selected filter and the initial sortBy,
\* then filteredTodos and counts over the answer
PageFetchTodos == \E f \in {"all", "active", "completed"} :
  \E r \in {Served("list", Me, "GET", <<>>, Query(f, "dueDate", "accepted"), EmptyBody)} :
    /\ db' = r.db
    /\ nextId' = r.nextId
    /\ last' = [r.last EXCEPT !.layer = "page", !.op = "fetchTodos",
                              !.todos = filteredTodos(r.last.todos, f),
                              !.stats = counts(r.last.todos)]
    /\ UNCHANGED <<cache, mirror, events, currentFilter, currentSort, asyncVars>>

\* After TodoManager.init(): the owner's tasks are in the collection and, in
\* some order, in this.todos; the preferences hold any filter and sortBy
InitView ==
  \E k \in 0..MaxTodos : \E shape \in [1..k -> Tasks] :
    \E f \in ViewFilters, sb \in ViewSorts :
      /\ mirror = ListMirror([i \in 1..k |-> [shape[i] EXCEPT !.id = Oid(i)]])
      /\ db = {[shape[i] EXCEPT !.id = Oid(i)] : i \in 1..k}
      /\ nextId = k + 1
      /\ cache = <<>>
      /\ events = NoEvents
      /\ last = Call("none", "none", "none", "none", "none", EmptyBody, 0, NoTodo, <<>>, NoStats, "none", TRUE)
      /\ currentFilter = f
      /\ currentSort = sb
      /\ Quiet

NextView ==
  \/ MgrGetFilteredTodos
  \/ MgrGetAllTodos
  \/ ReqGetTodosQuery
  \/ PageFetchTodos

\* The views of a loaded task list: the manager's, the server's, the page's
SpecView == InitView /\ [][NextView]_vars

\* ------------------------------------------------ calls that overlap
\* A call suspended at an await: its number, who made it, what it asked for,
\* how far it got, its place in the order of applied mutations, the answer on
\* its way, the preferences the server sent back and the list it holds
Pending(call, layer, op, arg, query, stage) ==
  [call |-> call, layer |-> layer, op |-> op, arg |-> arg, query |-> query, stage |-> stage,
   seq |-> 0, resp |-> Response(0, NoTodo, <<>>), user |-> DefaultPreferences, held |-> <<>>]

\* emit(event, data) with the payload the listeners receive
Event(event, call, seq, filter, sortBy, todo, todos) ==
  [event |-> event, action |-> "none", call |-> call, seq |-> seq, filter |-> filter,
   sortBy |-> sortBy, todo |-> todo, todos |-> todos]

\* The manager has loaded two tasks at most, every second one completed
InitOverlap ==
  \E k \in 0..MaxTodos :
    LET loaded == [i \in 1..k |-> [Task(<<"a">>, "medium", <<>>, i, i % 2 = 0) EXCEPT !.id = Oid(i)]]
    IN /\ db = Range(loaded)
       /\ nextId = k + 1
       /\ cache = <<>>
       /\ mirror = ListMirror(loaded)
       /\ events = NoEvents
       /\ last = Call("none", "none", "none", "none", "none", EmptyBody, 0, NoTodo, <<>>, NoStats, "none", TRUE)
       /\ currentFilter = "all"
       /\ currentSort = "created"
       /\ Quiet

\* TodoManager.setFilter up to its await: validate, this.currentFilter = filter,
\* storage.saveSettings({ filter }) sends PUT /auth/preferences
MgrSetFilter == \E filter \in ViewFilters :
  IF filter \notin {"all", "active", "completed"}
    THEN /\ last' = MgrCall("setFilter", filter, EmptyBody, "Error", TRUE)
         /\ UNCHANGED <<db, nextId, cache, mirror, events, currentFilter, currentSort, asyncVars>>
    ELSE /\ clock.calls < MaxCalls
         /\ currentFilter' = filter
         /\ clock' = [clock EXCEPT !.calls = @ + 1, !.applied = @ + 1]
         /\ pending' = pending \cup
               {[Pending(clock.calls + 1, "mgr", "setFilter", filter, NoQuery, "sent")
                   EXCEPT !.seq = clock.applied + 1]}
         /\ last' = MgrCall("setFilter", filter, EmptyBody, "pending", TRUE)
         /\ UNCHANGED <<db, nextId, cache, mirror, events, currentSort, log, prefs, settings, page>>

\* TodoManager.setSortBy up to its await
MgrSetSortBy == \E sortBy \in ViewSorts :
  IF sortBy \notin {"created", "priority", "dueDate", "alphabetical"}
    THEN /\ last' = MgrCall("setSortBy", sortBy, EmptyBody, "Error", TRUE)
         /\ UNCHANGED <<db, nextId, cache, mirror, events, currentFilter, currentSort, asyncVars>>
    ELSE /\ clock.calls < MaxCalls
         /\ currentSort' = sortBy
         /\ clock' = [clock EXCEPT !.calls = @ + 1, !.applied = @ + 1]
         /\ pending' = pending \cup
               {[Pending(clock.calls + 1, "mgr", "setSortBy", sortBy, NoQuery, "sent")
                   EXCEPT !.seq = clock.applied + 1]}
         /\ last' = MgrCall("setSortBy", sortBy, EmptyBody, "pending", TRUE)
         /\ UNCHANGED <<db, nextId, cache, mirror, events, currentFilter, log, prefs, settings, page>>

\* router.put('/preferences') serving a saveSettings request:
\* findByIdAndUpdate($set preferences.<key>), answered with the user
PutPreferences == \E p \in pending :
  /\ p.layer = "mgr" /\ p.op \in {"setFilter", "setSortBy"} /\ p.stage = "sent"
  /\ prefs' = IF p.op = "setFilter" THEN [prefs EXCEPT !.filter = p.arg]
                                    ELSE [prefs EXCEPT !.sortBy = p.arg]
  /\ pending' = (pending \ {p}) \cup
        {[p EXCEPT !.stage = "answered", !.resp = Response(200, NoTodo, <<>>), !.user = prefs']}
  /\ UNCHANGED <<db, nextId, cache, mirror, events, last, currentFilter, currentSort,
                 log, clock, settings, page>>

\* The fetch of saveSettings throws: saveSettings returns false
SaveSettingsFails == \E p \in pending :
  /\ p.layer = "mgr" /\ p.op \in {"setFilter", "setSortBy"} /\ p.stage = "sent"
  /\ pending' = (pending \ {p}) \cup {[p EXCEPT !.stage = "failed"]}
  /\ UNCHANGED <<db, nextId, cache, mirror, events, last, currentFilter, currentSort,
                 log, clock, prefs, settings, page>>

\* setFilter / setSortBy after the await: saveSettings stored data.user when
\* the answer was ok; then emit with this.getFilteredTodos() as it is now
MgrSettingsSaved == \E p \in pending :
  /\ p.layer = "mgr" /\ p.op \in {"setFilter", "setSortBy"} /\ p.stage \in {"answered", "failed"}
  /\ mirror.kind = "list"
  /\ settings' = IF p.stage = "answered" THEN p.user ELSE settings
  /\ log' = Append(log, Event(IF p.op = "setFilter" THEN "filterChanged" ELSE "sortChanged",
                               p.call, p.seq,
                               IF p.op = "setFilter" THEN p.arg ELSE "none",
                               IF p.op = "setSortBy" THEN p.arg ELSE "none",
                               NoTodo, getFilteredTodos(mirror.todos, currentFilter, currentSort).ret))
  /\ pending' = pending \ {p}
  /\ last' = MgrCall(p.op, p.arg, EmptyBody, "ok", p.stage = "answered")
  /\ UNCHANGED <<db, nextId, cache, mirror, events, currentFilter, currentSort, clock, prefs, page>>

\* TodoManager.toggleTodo up to its first await: storage.toggleTodo sends
\* PATCH /todos/:id/toggle for a task the list shows
MgrToggleSend == \E id \in IdsOf(Range(mirror.todos)) :
  /\ clock.calls < MaxCalls
  /\ clock' = [clock EXCEPT !.calls = @ + 1]
  /\ pending' = pending \cup {Pending(clock.calls + 1, "mgr", "toggle", id, NoQuery, "sent")}
  /\ last' = MgrCall("toggle", id, EmptyBody, "pending", TRUE)
  /\ UNCHANGED <<db, nextId, cache, mirror, events, currentFilter, currentSort,
                 log, prefs, settings, page>>

\* The server handles the PATCH of a pending toggle
ServeToggle == \E p \in pending :
  /\ p.layer = "mgr" /\ p.op = "toggle" /\ p.stage = "sent"
  /\ \E o \in {Handle(db, nextId, Me, "PATCH", <<p.arg, "toggle">>, NoQuery, EmptyBody)} :
       /\ db' = o.db
       /\ clock' = [clock EXCEPT !.applied = @ + 1]
       /\ pending' = (pending \ {p}) \cup
             {[p EXCEPT !.stage = "answered", !.resp = o.resp, !.seq = clock.applied + 1]}
  /\ UNCHANGED <<nextId, cache, mirror, events, last, currentFilter, currentSort,
                 log, prefs, settings, page>>

\* toggleTodo after storage.toggleTodo returned the updated task:
\* this.storage.getTodos() sends GET /todos
MgrToggleGet == \E p \in pending :
  /\ p.layer = "mgr" /\ p.op = "toggle" /\ p.stage = "answered" /\ Ok(p.resp.status)
  /\ pending' = (pending \ {p}) \cup {[p EXCEPT !.stage = "get"]}
  /\ UNCHANGED <<db, nextId, cache, mirror, events, last, currentFilter, currentSort,
                 log, clock, prefs, settings, page>>

\* The server handles the GET of a pending toggle
ServeGet == \E p \in pending :
  /\ p.layer = "mgr" /\ p.op = "toggle" /\ p.stage = "get"
  /\ pending' = (pending \ {p}) \cup
        {[p EXCEPT !.stage = "got", !.held = StGetTodos(db, nextId, cache, TRUE)]}
  /\ UNCHANGED <<db, nextId, cache, mirror, events, last, currentFilter, currentSort,
                 log, clock, prefs, settings, page>>

\* toggleTodo after getTodos returned: this.todos = the list, emit 'toggle'
MgrToggleDone == \E p \in pending :
  /\ p.layer = "mgr" /\ p.op = "toggle" /\ p.stage = "got"
  /\ mirror' = ListMirror(p.held)
  /\ events' = Emit(NoEvents, "toggle")
  /\ log' = Append(log, [Event("todosChanged", p.call, p.seq, "none", "none", p.resp.todo,
                                getFilteredTodos(p.held, currentFilter, currentSort).ret)
                            EXCEPT !.action = "toggle"])
  /\ pending' = pending \ {p}
  /\ last' = [MgrCall("toggle", p.arg, EmptyBody, "ok", TRUE) EXCEPT !.todo = p.resp.todo]
  /\ UNCHANGED <<db, nextId, cache, currentFilter, currentSort, clock, prefs, settings, page>>

NextOverlap ==
  \/ MgrSetFilter
  \/ MgrSetSortBy
  \/ PutPreferences
  \/ SaveSettingsFails
  \/ MgrSettingsSaved
  \/ MgrToggleSend
  \/ ServeToggle
  \/ MgrToggleGet
  \/ ServeGet
  \/ MgrToggleDone

\* Manager calls that start while earlier ones are still waiting for the network
SpecOverlap == InitOverlap /\ [][NextOverlap]_vars

\* ------------------------------------------------------------ TodosPage
\* What a request of the page asks of the router
PageRequest(p) ==
  CASE p.op = "fetch" -> Request("GET", <<>>, EmptyBody)
    [] p.op = "add" -> Request("POST", <<>>, Body({"text", "priority"}, <<"a">>, "medium", FALSE, "none"))
    [] p.op = "toggle" -> Request("PATCH", <<p.arg, "toggle">>, EmptyBody)
    [] OTHER -> Request("DELETE", <<p.arg>>, EmptyBody)

\* The page right after its first render: both effects have called
\* fetchTodos() with the initial filter and sortBy; the owner has tasks
InitPage ==
  \E k \in 0..MaxTodos :
    LET stored == [i \in 1..k |-> [Task(<<"a">>, "medium", <<>>, i, i % 2 = 0) EXCEPT !.id = Oid(i)]]
    IN /\ db = Range(stored)
       /\ nextId = k + 1
       /\ cache = <<>>
       /\ mirror = ListMirror(<<>>)
       /\ events = NoEvents
       /\ last = Call("none", "none", "none", "none", "none", EmptyBody, 0, NoTodo, <<>>, NoStats, "none", TRUE)
       /\ currentFilter = "all"
       /\ currentSort = "created"
       /\ log = <<>>
       /\ prefs = DefaultPreferences
       /\ settings = DefaultPreferences
       /\ page = PageState(<<>>, "all", "dueDate")
       /\ clock = Clock(MountFetches, 0)
       /\ pending = {Pending(c, "page", "fetch", "none", Query("all", "dueDate", "accepted"), "sent") :
                       c \in 1..MountFetches}

\* setFilter(f) of a filter button; the effect on [filter, sortBy] then calls
\* fetchTodos() with the new filter
PageSetFilter == \E f \in {"all", "active", "completed"} :
  /\ f # page.filter
  /\ clock.calls < MountFetches + MaxCalls
  /\ page' = [page EXCEPT !.filter = f]
  /\ clock' = [clock EXCEPT !.calls = @ + 1]
  /\ pending' = pending \cup
        {Pending(clock.calls + 1, "page", "fetch", "none", Query(f, page.sortBy, "accepted"), "sent")}
  /\ UNCHANGED <<db, nextId, cache, mirror, events, last, currentFilter, currentSort,
                 log, prefs, settings>>

\* setSortBy(s) of the sort select, and the fetchTodos() of the effect
PageSetSortBy == \E sb \in {"dueDate", "created"} :
  /\ sb # page.sortBy
  /\ clock.calls < MountFetches + MaxCalls
  /\ page' = [page EXCEPT !.sortBy = sb]
  /\ clock' = [clock EXCEPT !.calls = @ + 1]
  /\ pending' = pending \cup
        {Pending(clock.calls + 1, "page", "fetch", "none", Query(page.filter, sb, "accepted"), "sent")}
  /\ UNCHANGED <<db, nextId, cache, mirror, events, last, currentFilter, currentSort,
                 log, prefs, settings>>

\* addTodo up to its await: POST /todos is sent; the function keeps the
\* todos of the render it was created in
PageAddTodo == \E text \in {<<"a">>, <<" ">>} :
  /\ Trim(text) # <<>>
  /\ clock.calls < MountFetches + MaxCalls
  /\ clock' = [clock EXCEPT !.calls = @ + 1]
  /\ pending' = pending \cup
        {[Pending(clock.calls + 1, "page", "add", "none", NoQuery, "sent") EXCEPT !.held = page.todos]}
  /\ UNCHANGED <<db, nextId, cache, mirror, events, last, currentFilter, currentSort,
                 log, prefs, settings, page>>

\* toggleTodo(id) up to its await, for a task the page holds
PageToggleTodo == \E id \in IdsOf(Range(page.todos)) :
  /\ clock.calls < MountFetches + MaxCalls
  /\ clock' = [clock EXCEPT !.calls = @ + 1]
  /\ pending' = pending \cup
        {[Pending(clock.calls + 1, "page", "toggle", id, NoQuery, "sent") EXCEPT !.held = page.todos]}
  /\ UNCHANGED <<db, nextId, cache, mirror, events, last, currentFilter, currentSort,
                 log, prefs, settings, page>>

\* deleteTodo(id) up to its await, for a task the page holds
PageDeleteTodo == \E id \in IdsOf(Range(page.todos)) :
  /\ clock.calls < MountFetches + MaxCalls
  /\ clock' = [clock EXCEPT !.calls = @ + 1]
  /\ pending' = pending \cup
        {[Pending(clock.calls + 1, "page", "delete", id, NoQuery, "sent") EXCEPT !.held = page.todos]}
  /\ UNCHANGED <<db, nextId, cache, mirror, events, last, currentFilter, currentSort,
                 log, prefs, settings, page>>

\* The router handles a request of the page
ServePage == \E p \in pending :
  /\ p.layer = "page" /\ p.stage = "sent"
  /\ \E rq \in {PageRequest(p)} :
       \E o \in {Handle(db, nextId, Me, rq.method, rq.path, p.query, rq.b)} :
         /\ o.nextId <= MaxTodos + 1
         /\ db' = o.db
         /\ nextId' = o.nextId
         /\ pending' = (pending \ {p}) \cup {[p EXCEPT !.stage = "answered", !.resp = o.resp]}
  /\ UNCHANGED <<cache, mirror, events, last, currentFilter, currentSort,
                 log, clock, prefs, settings, page>>

\* The rest of fetchTodos, addTodo, toggleTodo or deleteTodo once the answer
\* is there: if (data.success) setTodos(...)
PageReceive == \E p \in pending :
  /\ p.layer = "page" /\ p.stage = "answered"
  /\ page' = IF ~Ok(p.resp.status) THEN page
             ELSE [page EXCEPT !.todos =
                    CASE p.op = "fetch" -> p.resp.todos
                      [] p.op = "add" -> <<p.resp.todo>> \o p.held
                      [] p.op = "toggle" ->
                           [i \in 1..Len(p.held) |->
                              IF p.held[i].id = p.arg THEN p.resp.todo ELSE p.held[i]]
                      [] OTHER -> SelectSeq(p.held, LAMBDA t : t.id # p.arg)]
  /\ pending' = pending \ {p}
  /\ UNCHANGED <<db, nextId, cache, mirror, events, last, currentFilter, currentSort,
                 log, clock, prefs, settings>>

NextPage ==
  \/ PageSetFilter
  \/ PageSetSortBy
  \/ PageAddTodo
  \/ PageToggleTodo
  \/ PageDeleteTodo
  \/ ServePage
  \/ PageReceive

\* The React page of user Me and the router, requests and answers in flight
SpecPage == InitPage /\ [][NextPage]_vars

\* ------------------------------------------- toggles inside the router
\* router.patch('/:id/toggle') up to its second await: Todo.findOne({_id, userId})
\* has answered; without a document the route answers 404, and 500 when the
\* id does not cast
ToggleFindOne == \E id \in IdArgs :
  IF ~IsObjectId(id) \/ {t \in db : t.id = id /\ t.userId = Me} = {}
    THEN \E r \in {Served("toggle", Me, "PATCH", <<id, "toggle">>, NoQuery, EmptyBody)} :
           /\ last' = r.last
           /\ UNCHANGED <<db, nextId, cache, mirror, events, currentFilter, currentSort, asyncVars>>
    ELSE /\ clock.calls < MaxCalls
         /\ clock' = [clock EXCEPT !.calls = @ + 1]
         /\ pending' = pending \cup
               {[Pending(clock.calls + 1, "server", "toggle", id, NoQuery, "read")
                   EXCEPT !.held = <<CHOOSE t \in db : t.id = id /\ t.userId = Me>>]}
         /\ UNCHANGED <<db, nextId, cache, mirror, events, last, currentFilter, currentSort,
                        log, prefs, settings, page>>

\* The rest of the route: todo.completed = !todo.completed on the document
\* that was read, todo.save() writes the changed path to the stored document,
\* res.json({ todo })
ToggleSave == \E p \in pending :
  /\ p.layer = "server" /\ p.op = "toggle" /\ p.stage = "read"
  /\ LET todo == [p.held[1] EXCEPT !.completed = ~p.held[1].completed]
         stored == {t \in db : t.id = p.arg}
     IN IF stored = {}
          THEN /\ db' = db
               /\ clock' = clock
               /\ last' = [Call("api", "toggle", "toggle", Me, p.arg, EmptyBody, 500, NoTodo, <<>>,
                                 NoStats, "none", TRUE) EXCEPT !.error = ServerError.error]
          ELSE /\ db' = {IF t.id = p.arg THEN [t EXCEPT !.completed = todo.completed] ELSE t : t \in db}
               /\ clock' = [clock EXCEPT !.applied = @ + 1, !.saves[p.arg] = @ + 1]
               /\ last' = Call("api", "toggle", "toggle", Me, p.arg, EmptyBody, 200, todo, <<>>,
                                NoStats, "none", TRUE)
  /\ pending' = pending \ {p}
  /\ UNCHANGED <<nextId, cache, mirror, events, currentFilter, currentSort, log, prefs, settings, page>>

NextRace ==
  \/ ReqPostTodo
  \/ ToggleFindOne
  \/ ToggleSave

\* The router serving toggle requests whose steps interleave
SpecRace == Init /\ [][NextRace]_vars

\* ------------------------------------------------------ start of the app
\* The page is opened by a user who has tasks on the server and preferences
\* in localStorage 'user'; no script has run yet
InitStart ==
  \E k \in 0..MaxTodos, f \in {"all", "active", "completed"},
     sb \in {"created", "priority", "dueDate", "alphabetical"} :
    LET stored == [i \in 1..k |-> [Task(<<"a">>, "medium", <<>>, i, i % 2 = 0) EXCEPT !.id = Oid(i)]]
    IN /\ db = Range(stored)
       /\ nextId = k + 1
       /\ cache = <<>>
       /\ mirror = ListMirror(<<>>)
       /\ events = NoEvents
       /\ last = Call("none", "none", "none", "none", "none", EmptyBody, 0, NoTodo, <<>>, NoStats, "none", TRUE)
       /\ currentFilter = "all"
       /\ currentSort = "created"
       /\ pending = {}
       /\ log = <<>>
       /\ clock = Clock(0, 0)
       /\ prefs = Preferences(f, sb)
       /\ settings = Preferences(f, sb)
       /\ page = PageState(<<>>, "all", "dueDate")

\* The two TodoManager classes of the repository
Managers == {"scripts/todoManager.js", "unnamed/part_002"}

\* TodoApp.init : new TodoManager(), new UIManager(todoManager).  The
\* constructor of scripts/todoManager.js sets the fields and returns, and
\* nothing calls its init(); the constructor of part_002 calls this.init(),
\* which waits for storage.getTodos().  UIManager registers its listeners
\* and renders getFilteredTodos() once.
TodoAppInit == \E manager \in Managers :
  /\ clock.calls = 0
  /\ clock' = [clock EXCEPT !.calls = 1]
  /\ mirror' = ListMirror(<<>>)
  /\ currentFilter' = "all"
  /\ currentSort' = "created"
  /\ events' = NoEvents
  /\ pending' = IF manager = "unnamed/part_002"
                  THEN {Pending(1, "mgr", "init", "none", NoQuery, "sent")}
                  ELSE {}
  /\ last' = [Call("app", "init", manager, Me, "none", EmptyBody, 0, NoTodo, <<>>, NoStats, "ok", TRUE)
                 EXCEPT !.todos = getFilteredTodos(<<>>, "all", "created").ret]
  /\ UNCHANGED <<db, nextId, cache, log, prefs, settings, page>>

\* storage.getTodos of init is answered by the server, or falls back to the
\* local cache
InitGetTodos == \E p \in pending, net \in BOOLEAN :
  /\ p.layer = "mgr" /\ p.op = "init" /\ p.stage = "sent"
  /\ pending' = (pending \ {p}) \cup
        {[p EXCEPT !.stage = "got", !.held = StGetTodos(db, nextId, cache, net)]}
  /\ UNCHANGED <<db, nextId, cache, mirror, events, last, currentFilter, currentSort,
                 log, clock, prefs, settings, page>>

\* init of part_002 after its await: this.todos, currentFilter and
\* currentSort are set from the answer and from getSettings(); it emits nothing
MgrInitDone == \E p \in pending :
  /\ p.layer = "mgr" /\ p.op = "init" /\ p.stage = "got"
  /\ mirror' = ListMirror(p.held)
  /\ currentFilter' = settings.filter
  /\ currentSort' = settings.sortBy
  /\ pending' = pending \ {p}
  /\ last' = [MgrCall("init", "none", EmptyBody, "ok", TRUE) EXCEPT !.todos = p.held]
  /\ UNCHANGED <<db, nextId, cache, events, log, clock, prefs, settings, page>>

NextStart ==
  \/ TodoAppInit
  \/ InitGetTodos
  \/ MgrInitDone

\* The start of the vanilla app: the DOM gets ready, requests are answered
\* and continuations run
SpecStart ==
  /\ InitStart
  /\ [][NextStart]_vars
  /\ WF_vars(TodoAppInit)
  /\ WF_vars(InitGetTodos)
  /\ WF_vars(MgrInitDone)

\* ------------------------------------------ requests with their credentials
\* A request to /api/todos with any Authorization header, under any
\* environment of the server, the store answering or throwing
AppRequest == \E cred \in Credentials, env \in Envs, fault \in BOOLEAN, rq \in Requests :
  \E o \in {Router(db, nextId, cred, env, fault, rq.method, rq.path, NoQuery, rq.b)} :
    /\ o.nextId <= MaxTodos + 1
    /\ db' = o.db
    /\ nextId' = o.nextId
    /\ last' = [Call("app", "request", Dispatch(rq.method, rq.path), cred.userId,
                      IF rq.path = <<>> THEN "none" ELSE rq.path[1], rq.b,
                      o.resp.status, o.resp.todo, o.resp.todos, o.resp.stats, "none", TRUE)
                   EXCEPT !.error = o.resp.error, !.stack = o.resp.stack,
                          !.cred = cred, !.env = env, !.fault = fault]
    /\ UNCHANGED <<cache, mirror, events, currentFilter, currentSort, asyncVars>>

\* A request whose JSON body does not parse: express.json() passes the error
\* (status 400) to the error handler and the router is not reached
AppParseError == \E cred \in Credentials, env \in HandlerEnvs :
  \E r \in {ErrorHandler(env, 400)} :
    /\ last' = [Call("app", "parseError", "none", cred.userId, "none", EmptyBody,
                      r.status, r.todo, r.todos, r.stats, "none", TRUE)
                   EXCEPT !.error = r.error, !.stack = r.stack, !.cred = cred, !.env = env]
    /\ UNCHANGED <<db, nextId, cache, mirror, events, currentFilter, currentSort, asyncVars>>

NextAuth ==
  \/ AppRequest
  \/ AppParseError

\* The server as the network sees it: the router behind its auth middleware
SpecAuth == Init /\ [][NextAuth]_vars

\* The browser of user Me, next to another user of the same server
Next ==
  \/ MgrAddTodo
  \/ MgrUpdateTodo
  \/ MgrDeleteTodo
  \/ MgrToggleTodo
  \/ MgrMarkAllTodos
  \/ MgrClearCompleted
  \/ PeerPostTodo

Spec == Init /\ [][Next]_vars

\* The router alone, driven by authenticated requests of both users
NextApi ==
  \/ ReqGetTodos
  \/ ReqPostTodo
  \/ ReqPutTodo
  \/ ReqDeleteTodo
  \/ ReqToggleTodo
  \/ ReqMarkAll
  \/ ReqClearCompleted
  \/ ReqStats

SpecApi == Init /\ [][NextApi]_vars

\* The browser of user Me adding tasks and importing a file
NextImport ==
  \/ MgrAddTodo
  \/ MgrToggleTodo
  \/ MgrImportTodos

SpecImport == Init /\ [][NextImport]_vars

\* The browser of user Me adding tasks, toggling them and completing them in
\* a batch, next to another user of the same server
NextToggle ==
  \/ MgrAddTodo
  \/ MgrToggleTodo
  \/ MgrMarkAllTodos
  \/ PeerPostTodo

SpecToggle == Init /\ [][NextToggle]_vars

\* =================================================================== claims
IsApi(c) == c.layer = "api"

IsMgr(c) == c.layer = "mgr"

\* C1: a request made as user A leaves every task owned by another user in
\* the collection, unchanged; the single task it answers with was A's (or is
\* the one it just created); the list it answers with holds only A's tasks,
\* and GET /todos without a filter answers with exactly A's tasks; the
\* statistics count A's tasks only.
C1_OwnerIsolation ==
  [][IsApi(last') =>
       LET A == last'.user IN
       /\ \A t \in db : t.userId # A => t \in db'
       /\ last'.todo # NoTodo =>
            (last'.todo.id \in IdsOf(OwnedBy(db, A)) \/ last'.todo.id \notin IdsOf(db))
       /\ Range(last'.todos) \subseteq OwnedBy(db', A)
       /\ (last'.handler = "list" /\ last'.outcome \in {"all", "none"}) =>
            (Range(last'.todos) = OwnedBy(db', A) /\ Len(last'.todos) = Cardinality(OwnedBy(db', A)))
       /\ last'.handler = "stats" => last'.stats.total = Cardinality(OwnedBy(db, A))
    ]_vars

\* C1 witness: a user asked to delete, toggle or update a task that exists
\* but belongs to the other user, got 404, and the task is still there
C1_Witness ==
  /\ IsApi(last)
  /\ last.handler \in {"delete", "toggle", "update"}
  /\ last.status = 404
  /\ \E t \in db : t.id = last.id /\ t.userId # last.user

\* C2: no request changes the owner of an existing task
C2_OwnerImmutable ==
  [][\A t \in db : \A t2 \in db' : t.id = t2.id => t.userId = t2.userId]_vars

\* C3: DELETE /todos/completed deletes exactly the caller's completed tasks
\* and answers 200 with the caller's remaining todos
C3_ClearCompletedDeletes ==
  [][(IsApi(last') /\ last'.op = "clearCompleted") =>
       LET A == last'.user
           remaining == {t \in db : ~(t.userId = A /\ t.completed)}
       IN /\ db' = remaining
          /\ last'.status = 200
          /\ last'.todos = SortCreatedDesc(OwnedBy(remaining, A))
    ]_vars

\* The manager calls that mutate tasks
MutatingOps == {"add", "update", "delete", "toggle", "markAll", "clearCompleted"}

\* A manager call whose mutation was carried out by the storage layer
Succeeded(c) ==
  /\ IsMgr(c)
  /\ CASE c.op = "add" -> c.outcome = "ok"
       [] c.op = "update" -> c.outcome # "Error" /\ c.todo # NoTodo
       [] c.op = "delete" -> c.outcome = "true"
       [] c.op = "toggle" -> c.outcome = "ok"
       [] c.op \in {"markAll", "clearCompleted"} -> TRUE
       [] OTHER -> FALSE

\* C4: once a mutating manager call that reached the server and was carried
\* out has completed, this.todos is a list holding exactly the caller's tasks
\* of the store
C4_MirrorEqualsStore ==
  (Succeeded(last) /\ last.net) =>
     (mirror.kind = "list" /\ Range(mirror.todos) = OwnedBy(db, Me)
        /\ Len(mirror.todos) = Cardinality(OwnedBy(db, Me)))

\* C5: a mutating manager call that succeeded has delivered exactly one
\* todosChanged event, carrying its own action, to every listener; a call
\* that failed has delivered none
C5_OneEventPerMutation ==
  IsMgr(last) =>
     \A l \in Listeners :
        events[l] = IF Succeeded(last) THEN <<last.op>> ELSE <<>>

\* C6: TodoManager.updateTodo with a priority outside {high, medium, low},
\* addressed to a task of the caller while the store is reachable, fails
\* with a validation error and leaves the store and the cache as they were
C6_InvalidPriorityRejected ==
  [][(IsMgr(last') /\ last'.op = "update" /\ "priority" \in last'.body.has
        /\ last'.body.priority \notin Priorities
        /\ last'.net
        /\ last'.id \in IdsOf(OwnedBy(db, Me))) =>
       (last'.outcome = "Error" /\ db' = db /\ cache' = cache)
    ]_vars

\* C7: DELETE /todos/:id for an id that resolves to no task of the caller
\* answers 404 and removes nothing
C7_DeleteUnknownIs404 ==
  [][(IsApi(last') /\ last'.handler = "delete"
        /\ last'.id \notin IdsOf(OwnedBy(db, last'.user))) =>
       (last'.status = 404 /\ db' = db)
    ]_vars

\* Ids below the allocation counter that are not in the collection: the
\* ObjectIds among them have been deleted
DeletedIds == {Oid(k) : k \in 1..(nextId - 1)} \ IdsOf(db)

\* C8: a deleted id is in neither the cache nor the mirror, and a manager
\* call addressed to it has not succeeded
C8_DeletedIsAbsorbing ==
  \A id \in DeletedIds :
     /\ id \notin IdsOf(Range(cache))
     /\ id \notin IdsOf(Range(mirror.todos))
     /\ (IsMgr(last) /\ last.id = id /\ last.op \in {"update", "toggle"}) => ~Succeeded(last)

\* C9: POST /todos with a missing, empty or whitespace-only text answers 400
\* and creates no task
C9_BlankTextIs400 ==
  [][(IsApi(last') /\ last'.handler = "create"
        /\ ("text" \notin last'.body.has \/ Trim(last'.body.text) = <<>>)) =>
       (last'.status = 400 /\ db' = db)
    ]_vars

\* A body POST /todos accepts: a text that is non-empty once trimmed and
\* within the length limit, and a priority that is absent or in the enum
ValidAdd(b) ==
  /\ "text" \in b.has
  /\ Trim(b.text) # <<>>
  /\ Len(b.text) <= MaxTextLen
  /\ "priority" \in b.has => b.priority \in Priorities

\* C10: a valid POST /todos answers 201 with the created task: its text is
\* the submitted text trimmed, it is not completed, its priority is the
\* submitted one or medium, its owner is the caller, and it has been added
\* to the collection, which is otherwise unchanged
C10_ValidAddCreates ==
  [][(IsApi(last') /\ last'.handler = "create" /\ ValidAdd(last'.body)) =>
       LET t == last'.todo
           b == last'.body
       IN /\ last'.status = 201
          /\ t.text = Trim(b.text)
          /\ t.completed = FALSE
          /\ t.priority = IF "priority" \in b.has THEN b.priority ELSE "medium"
          /\ t.userId = last'.user
          /\ t.id \notin IdsOf(db)
          /\ db' = db \cup {t}
          /\ t \in OwnedBy(db', last'.user)
    ]_vars

\* C10 witness: a task was created from a text with surrounding blanks, or
\* with an explicit priority, while the other user already owned a task
C10_Witness ==
  /\ IsApi(last)
  /\ last.handler = "create"
  /\ last.status = 201
  /\ last.todo \in db
  /\ (last.body.text # Trim(last.body.text) \/ "priority" \in last.body.has)
  /\ \E t \in db : t.userId # last.user

\* C11: a task created by POST /todos with a description and a category of
\* the enum carries the submitted description and category in the answer and
\* in the collection
C11_DetailsStored ==
  [][(IsApi(last') /\ last'.handler = "create" /\ ValidAdd(last'.body)
        /\ {"description", "category"} \subseteq last'.body.has
        /\ last'.body.category \in Categories) =>
       /\ last'.status = 201
       /\ last'.todo.description = last'.body.description
       /\ last'.todo.category = last'.body.category
       /\ last'.todo \in db'
    ]_vars

\* A list produced under a filter and a sort: by getFilteredTodos, by
\* GET /todos, or by the page
IsView(c) ==
  \/ (IsMgr(c) /\ c.op = "view")
  \/ (IsApi(c) /\ c.handler = "list")
  \/ c.layer = "page"

\* The sort mode a view was produced under
SortOf(c) == c.query.sortBy

\* The filter a view was produced under
FilterOf(c) == c.query.filter

\* The tasks a view was produced from
SourceOf(c) == IF IsMgr(c) THEN Range(mirror.todos) ELSE OwnedBy(db, c.user)

\* A view that was answered with a list
Answered(c) == IF IsMgr(c) THEN c.outcome = "ok" ELSE c.status = 200

\* C12: a view under sort mode dueDate is answered with the tasks in
\* ascending dueDate, every task without a dueDate after every task with one
C12_DueDateOrder ==
  (IsView(last) /\ last.layer # "page" /\ SortOf(last) = "dueDate") =>
     /\ Answered(last)
     /\ \A i, j \in 1..Len(last.todos) : i < j =>
          /\ last.todos[i].dueDate = <<>> => last.todos[j].dueDate = <<>>
          /\ (last.todos[i].dueDate # <<>> /\ last.todos[j].dueDate # <<>>) =>
               ParseDate(last.todos[i].dueDate) <= ParseDate(last.todos[j].dueDate)

\* C13: a view under sort mode alphabetical is answered with the tasks in
\* ascending order of their lower-cased texts
C13_AlphabeticalOrder ==
  (IsView(last) /\ SortOf(last) = "alphabetical") =>
     /\ Answered(last)
     /\ \A i, j \in 1..Len(last.todos) : i < j =>
          CompareCodeUnits(ToLowerCase(last.todos[i].text), ToLowerCase(last.todos[j].text)) <= 0

\* C14: a view under sort mode priority is answered with the tasks in
\* descending rank high > medium > low, tasks of equal priority newest first
C14_PriorityOrder ==
  (IsView(last) /\ SortOf(last) = "priority") =>
     /\ Answered(last)
     /\ \A i, j \in 1..Len(last.todos) : i < j =>
          \/ priorityOrder(last.todos[i].priority) > priorityOrder(last.todos[j].priority)
          \/ /\ last.todos[i].priority = last.todos[j].priority
             /\ last.todos[i].createdAt >= last.todos[j].createdAt

\* matchesFilter(t, F) of the specification
MatchesFilter(t, f) ==
  CASE f = "all" -> TRUE
    [] f = "active" -> t.completed = FALSE
    [] f = "completed" -> t.completed = TRUE
    [] OTHER -> FALSE

\* C15: a view under a filter of {all, active, completed} that was answered
\* holds exactly the tasks of its source that match the filter, each once
C15_ViewMatchesFilter ==
  (IsView(last) /\ Answered(last) /\ FilterOf(last) \in {"all", "active", "completed"}) =>
     /\ Range(last.todos) = {t \in SourceOf(last) : MatchesFilter(t, FilterOf(last))}
     /\ Len(last.todos) = Cardinality(Range(last.todos))

\* C15 witness: a view under 'active' or 'completed' was answered with some
\* tasks of its source while leaving out others
C15_Witness ==
  /\ IsView(last)
  /\ Answered(last)
  /\ FilterOf(last) \in {"active", "completed"}
  /\ last.todos # <<>>
  /\ Range(last.todos) # SourceOf(last)

\* C16: a view asked for with a filter outside {all, active, completed} or a
\* sort outside {created, priority, dueDate, alphabetical} fails: the manager
\* throws, the server answers with a client error
C16_UnknownModeFails ==
  (IsView(last) /\ last.layer # "page"
     /\ (FilterOf(last) \notin {"all", "active", "completed", "none"}
           \/ SortOf(last) \notin {"created", "priority", "dueDate", "alphabetical", "none"})) =>
     IF IsMgr(last) THEN last.outcome = "Error" ELSE last.status = 400

\* C17: the manager's view applied to its own answer, under the same filter
\* and sort, gives that answer again
C17_ViewIdempotent ==
  (IsMgr(last) /\ last.op = "view" /\ last.outcome = "ok") =>
     getFilteredTodos(last.todos, FilterOf(last), SortOf(last)).ret = last.todos

\* C17 witness: a view of two or more tasks that tie under the sort in
\* force (equal priority and createdAt, equal text up to case, or no dueDate)
C17_Witness ==
  /\ IsMgr(last)
  /\ last.op = "view"
  /\ last.outcome = "ok"
  /\ Len(last.todos) >= 2
  /\ SortOf(last) \in {"priority", "dueDate", "alphabetical"}
  /\ getSortFunction(SortOf(last), last.todos[1], last.todos[2]) = 0
  /\ last.todos[1] # last.todos[2]

\* C18: getFilteredTodos and getAllTodos leave this.todos as it was: the same
\* tasks in the same order
C18_ViewLeavesMirror ==
  [][(IsMgr(last') /\ last'.op \in {"view", "getAll"}) => mirror' = mirror]_vars

\* C18 witness: a view was answered whose order differs from the order of
\* this.todos, which holds the same tasks
C18_Witness ==
  /\ IsMgr(last)
  /\ last.op = "view"
  /\ last.outcome = "ok"
  /\ Len(last.todos) = Len(mirror.todos)
  /\ last.todos # mirror.todos

BadCredential(c) ==
  c.scheme # "Bearer" \/ c.token \in {"malformed", "expired"} \/ c.userId \notin Users

C21_Unauthorized401 ==
  [][(last'.layer = "app" /\ last'.op = "request" /\ BadCredential(last'.cred)) =>
       (/\ last'.status = 401
        /\ db' = db
        /\ last'.todo = NoTodo /\ last'.todos = <<>> /\ last'.stats = NoStats)]_vars

\* C21 as amended: the same when the server runs neither with NODE_ENV=test
\* nor with SKIP_AUTH=true; when the lookup of the token's user itself fails
\* the answer is 500 instead of 401, still without reading or writing a task
BypassOff(env) == env.NODE_ENV # "test" /\ ~env.SKIP_AUTH

C21_Unauthorized401NoBypass ==
  [][(last'.layer = "app" /\ last'.op = "request" /\ BadCredential(last'.cred)
        /\ BypassOff(last'.env)) =>
       (/\ IF last'.fault /\ last'.cred.scheme = "Bearer" /\ last'.cred.token = "valid"
             THEN last'.status = 500 ELSE last'.status = 401
        /\ db' = db
        /\ last'.todo = NoTodo /\ last'.todos = <<>> /\ last'.stats = NoStats)]_vars

\* C21 witness: with a task of u1 in the collection, a token of a user that
\* is gone was turned away with 401 on the route that would have toggled it
C21_Witness ==
  /\ last.layer = "app" /\ last.op = "request" /\ BypassOff(last.env) /\ ~last.fault
  /\ last.cred = Credential("Bearer", "valid", "u0")
  /\ last.handler = "toggle" /\ last.status = 401
  /\ \E t \in db : t.userId = Me /\ t.id = last.id

\* C22: a task added through TodoManager.addTodo with a due date that
\* carries a time of day is stored with that due date
C22_TimedDueDateKept ==
  (IsMgr(last) /\ last.op = "add" /\ last.outcome = "ok" /\ Len(last.body.dueDate) = 2) =>
     (/\ last.todo.dueDate = CastDate(last.body.dueDate)
      /\ \E t \in OwnedBy(db, Me) \cup Range(cache) :
            t.id = last.todo.id /\ t.dueDate = CastDate(last.body.dueDate))

\* The status the server gives to the request a manager call makes, in the
\* state the call starts from
ServerStatus(c) ==
  CASE c.op = "add" ->
         Handle(db, nextId, Me, "POST", <<>>, NoQuery, cleanTodoData(c.body)).resp.status
    [] c.op = "update" ->
         Handle(db, nextId, Me, "PUT", <<c.id>>, NoQuery,
                Body(c.body.has \ {"userId"}, Trim(c.body.text), validatePriority(c.body),
                     c.body.completed, "none")).resp.status
    [] c.op = "delete" -> Handle(db, nextId, Me, "DELETE", <<c.id>>, NoQuery, EmptyBody).resp.status
    [] c.op = "toggle" -> Handle(db, nextId, Me, "PATCH", <<c.id, "toggle">>, NoQuery, EmptyBody).resp.status
    [] c.op = "markAll" -> Handle(db, nextId, Me, "PATCH", <<"mark-all">>, NoQuery, c.body).resp.status
    [] c.op = "clearCompleted" ->
         Handle(db, nextId, Me, "DELETE", <<"completed">>, NoQuery, EmptyBody).resp.status
    [] OTHER -> 0

\* C23: when the server is reachable and answers a mutating request with an
\* error status, nothing is written to the collection or to the local cache,
\* no task is handed back as created or updated, and no event is emitted
C23_NoFallbackOnErrorStatus ==
  [][(IsMgr(last') /\ last'.op \in MutatingOps /\ last'.net /\ last'.outcome # "Error"
        /\ ~Ok(ServerStatus(last'))) =>
       (/\ db' = db
        /\ cache' = cache
        /\ last'.todo = NoTodo
        /\ events' = NoEvents)]_vars

\* C24: importTodos with well-formed data replaces the owner's tasks by the
\* tasks of the data and succeeds; with malformed data it fails and leaves
\* tasks, mirror and view preferences as they were
TextsOf(todos) == [i \in 1..Len(todos) |-> todos[i].text]

C24_ImportAllOrNothing ==
  [][(IsMgr(last') /\ last'.op = "import") =>
       IF last'.data.wellFormed
         THEN /\ last'.outcome = "true"
              /\ mirror'.kind = "list"
              /\ TextsOf(mirror'.todos) = TextsOf(last'.data.todos)
         ELSE /\ last'.outcome # "true"
              /\ db' = db /\ cache' = cache /\ mirror' = mirror
              /\ currentFilter' = currentFilter /\ currentSort' = currentSort]_vars

\* C26: the manager's events are delivered in the order in which the
\* mutations were applied, and the payload of an event agrees with its own
\* operation: the todos of filterChanged match its filter, the todos of
\* sortChanged are in the order of its sortBy
C26_EventsInMutationOrder ==
  /\ \A i, j \in DOMAIN log : i < j => log[i].seq < log[j].seq
  /\ \A i \in DOMAIN log :
        /\ log[i].event = "filterChanged" =>
              \A t \in Range(log[i].todos) : MatchesFilter(t, log[i].filter)
        /\ log[i].event = "sortChanged" =>
              log[i].todos = SortList(log[i].todos, log[i].sortBy)

\* C25: in production mode a 500 response carries neither the message of
\* the underlying error nor a stack trace
C25_Generic500InProduction ==
  (last.layer = "app" /\ last.env.NODE_ENV = "production" /\ last.status = 500) =>
     (last.error = "none" /\ last.stack = "none")

\* C27: once every request of the page has been answered and handled, the
\* list the page shows is the owner's tasks on the server that match the
\* selected filter
C27_PageShowsServerTasks ==
  ({p \in pending : p.layer = "page"} = {}) =>
     LET shown == filteredTodos(page.todos, page.filter)
         stored == {t \in OwnedBy(db, Me) : MatchesFilter(t, page.filter)}
     IN Range(shown) = stored /\ Len(shown) = Cardinality(stored)

\* C28: the counts the page shows are the counts over all tasks of the
\* owner, whichever filter is selected, and all = active + completed
C28_CountsOverAllTasks ==
  (last.layer = "page" /\ last.status = 200) =>
     LET mine == OwnedBy(db, Me)
     IN /\ last.stats.total = Cardinality(mine)
        /\ last.stats.completed = Cardinality({t \in mine : t.completed})
        /\ last.stats.active = Cardinality({t \in mine : ~t.completed})
        /\ last.stats.total = last.stats.active + last.stats.completed

\* C29: when the toggle requests for a task have all been processed, its
\* completed value is the original value (a new task is not completed)
\* flipped once per request, whatever the order of their reads and writes
C29_ToggleAtomic ==
  ({p \in pending : p.layer = "server"} = {}) =>
     \A t \in db : t.completed = (clock.saves[t.id] % 2 = 1)

\* C30: after the app has started, the manager eventually holds the owner's
\* tasks and the stored filter and sort preferences, and has delivered
\* todosChanged with action 'loaded' to its listeners
Loaded ==
  /\ mirror.kind = "list"
  /\ Range(mirror.todos) = OwnedBy(db, Me)
  /\ currentFilter = settings.filter
  /\ currentSort = settings.sortBy
  /\ \E i \in DOMAIN log : log[i].event = "todosChanged" /\ log[i].action = "loaded"

C30_EventuallyLoaded == (clock.calls > 0) ~> Loaded

====
